---- MODULE Spec2Model ----
(***************************************************************************)
(* Model of ML/train_and_export.py: the pipeline controller (__main__),    *)
(* train / download_data, get_best_weights and export_to_coreml, over an   *)
(* abstract filesystem (dataset root, run directories, .mlpackage bundles).*)
(* The third-party collaborators (Roboflow download, ultralytics training  *)
(* and export, shutil.rmtree, Path.rename) are nondeterministic outcomes.  *)
(***************************************************************************)
EXTENDS Integers, Sequences, FiniteSets, TLC

VARIABLES
    dataset,       \* DATA_ROOT on disk: "absent" | "nomanifest" | "ok" (data.yaml present)
    runs,          \* runs[i] = checkpoint files in the weights dir of the i-th run created
    pkg,           \* the .mlpackage bundles on disk: path -> [gen, files]
    nconv,         \* number of bundles the conversion routine has written so far
    fetches,       \* number of remote dataset fetches attempted so far
    invocations,   \* number of times the script has been started
    pc,            \* per process: position in the script
    args,          \* per process: parsed command line
    weights_path,  \* per process: local weights_path of export_to_coreml
    fresh,         \* per process: generation written by this call's model.export (0: none)
    before,        \* per process: bundle at the canonical path when export_to_coreml began
    trace,         \* per process: what this invocation's train() has done so far
    status         \* per process: how the last invocation ended

vars == <<dataset, runs, pkg, nconv, fetches, invocations, pc, args, weights_path,
          fresh, before, trace, status>>

(* ------------------------------ bounds --------------------------------- *)
MaxOldRuns == 9
MaxInvocations == 2
PkgFiles == 2

(* ------------------------- program constants --------------------------- *)

\* Strings that take part in path ordering, as sequences of code points.
S_runs == <<114, 117, 110, 115>>
S_detect == <<100, 101, 116, 101, 99, 116>>
S_weights == <<119, 101, 105, 103, 104, 116, 115>>
S_best_pt == <<98, 101, 115, 116, 46, 112, 116>>
S_last_pt == <<108, 97, 115, 116, 46, 112, 116>>
COREML_OUTPUT_NAME == "MahjongTileDetector"

Procs == {1, 2}
Kinds == {"best", "last"}

(* ------------------------------ paths ---------------------------------- *)
\* A path is [run, stem, suffix]: run = 0 is the working directory, run = i > 0 is
\* runs/<name of the i-th run>/weights.
MkPath(r, st, sf) == [run |-> r, stem |-> st, suffix |-> sf]
NoPath == MkPath(0, "", "")
Checkpoint(i, k) == MkPath(i, k, "pt")
with_suffix(p, sf) == [p EXCEPT !.suffix = sf]
Target == MkPath(0, COREML_OUTPUT_NAME, "mlpackage")

RECURSIVE Decimal(_)
Decimal(n) == IF n < 10 THEN <<48 + n>> ELSE Decimal(n \div 10) \o <<48 + (n % 10)>>

\* The directory name of the i-th run: detect, detect2, detect3, ...
RunName(i) == S_detect \o (IF i = 1 THEN <<>> ELSE Decimal(i))

PathParts(p) == <<S_runs, RunName(p.run), S_weights,
                  IF p.stem = "best" THEN S_best_pt ELSE S_last_pt>>

\* Python's str ordering: by code point, a proper prefix first.
RECURSIVE StrLess(_, _)
StrLess(a, b) ==
    IF b = <<>> THEN FALSE
    ELSE IF a = <<>> THEN TRUE
    ELSE IF Head(a) # Head(b) THEN Head(a) < Head(b)
    ELSE StrLess(Tail(a), Tail(b))

\* Path ordering: the lists of parts compared element by element.
RECURSIVE PartsLess(_, _)
PartsLess(a, b) ==
    IF b = <<>> THEN FALSE
    ELSE IF a = <<>> THEN TRUE
    ELSE IF Head(a) # Head(b) THEN StrLess(Head(a), Head(b))
    ELSE PartsLess(Tail(a), Tail(b))

PathLess(p, q) == PartsLess(PathParts(p), PathParts(q))

RECURSIVE sorted(_)
sorted(S) ==
    IF S = {} THEN <<>>
    ELSE LET m == CHOOSE x \in S : \A y \in S \ {x} : PathLess(x, y)
         IN <<m>> \o sorted(S \ {m})

\* RUNS_DIR.parent.glob("detect*/weights/<k>.pt")
glob(k) == {Checkpoint(i, k) : i \in {j \in 1..Len(runs) : k \in runs[j]}}

\* A locator that looks at last.pt before best.pt.
get_best_weights_last_first ==
    LET best == sorted(glob("best"))
        last == sorted(glob("last"))
    IN  IF last # <<>> THEN last[Len(last)]
        ELSE IF best # <<>> THEN best[Len(best)]
        ELSE NoPath

get_best_weights ==
    LET best == sorted(glob("best"))
        last == sorted(glob("last"))
    IN  IF best # <<>> THEN best[Len(best)]
        ELSE IF last # <<>> THEN last[Len(last)]
        ELSE NoPath                     \* raise FileNotFoundError

(* ----------------------------- bundles --------------------------------- *)
AllFiles == 1..PkgFiles
NoPkg == [gen |-> -1, files |-> {}]
OldPkg == [gen |-> 0, files |-> AllFiles]
NewPkg(g) == [gen |-> g, files |-> AllFiles]
Exists(path) == path \in DOMAIN pkg
Content(path) == IF Exists(path) THEN pkg[path] ELSE NoPkg
Put(path, b) == [x \in DOMAIN pkg \cup {path} |-> IF x = path THEN b ELSE pkg[x]]
Remove(path) == [x \in DOMAIN pkg \ {path} |-> pkg[x]]
EmptyDisk == [x \in {} |-> NoPkg]

\* What is left of a bundle when shutil.rmtree stops after deleting k entries.
Leftover(b, k) == [b EXCEPT !.files = {f \in b.files : Cardinality({g \in b.files : g < f}) >= k}]

(* --------------------------- command line ------------------------------ *)
WeightsPath(w) ==
    IF w = "alias" THEN MkPath(0, COREML_OUTPUT_NAME, "pt")
    ELSE IF w = "run1last" THEN Checkpoint(1, "last")
    ELSE NoPath

ArgChoices ==
    {a \in [train : BOOLEAN, export : BOOLEAN, weights : {"none", "alias", "run1last"}] :
        /\ (a.weights # "none") => a.export
        /\ (a.weights = "run1last") => (Len(runs) >= 1 /\ "last" \in runs[1])}

ExportOnly == {a \in ArgChoices : a.export /\ ~a.train}

NoArgs == [train |-> FALSE, export |-> FALSE, weights |-> "none"]

ExitCode(s) == IF s \in {"usage", "ok", "warn"} THEN 0 ELSE 1

Exit(p, s) ==
    /\ pc' = [pc EXCEPT ![p] = "exit"]
    /\ status' = [status EXCEPT ![p] = s]

Goto(p, l) ==
    /\ pc' = [pc EXCEPT ![p] = l]
    /\ UNCHANGED status

(* ------------------------------ __main__ ------------------------------- *)
Main(p, choices, restart) ==
    /\ pc[p] \in (IF restart THEN {"idle", "exit"} ELSE {"idle"})
    /\ invocations < MaxInvocations
    /\ invocations' = invocations + 1
    /\ \E a \in choices :
        /\ args' = [args EXCEPT ![p] = a]
        /\ IF ~a.train /\ ~a.export
              THEN Exit(p, "usage")
              ELSE /\ pc' = [pc EXCEPT ![p] = IF a.train THEN "train" ELSE "export"]
                   /\ status' = [status EXCEPT ![p] = "none"]
    /\ weights_path' = [weights_path EXCEPT ![p] = NoPath]
    /\ fresh' = [fresh EXCEPT ![p] = 0]
    /\ before' = [before EXCEPT ![p] = NoPkg]
    /\ trace' = [trace EXCEPT ![p] = {}]
    /\ UNCHANGED <<dataset, runs, pkg, nconv, fetches>>

(* -------------------------------- train -------------------------------- *)
\* A train() that downloads whether or not the dataset root is there.
TrainCheckRoot_always(p) ==
    /\ pc[p] = "train"
    /\ Goto(p, "download")
    /\ UNCHANGED <<dataset, runs, pkg, nconv, fetches, invocations, args, weights_path,
                   fresh, before, trace>>

TrainCheckRoot(p) ==
    /\ pc[p] = "train"
    /\ Goto(p, IF dataset = "absent" THEN "download" ELSE "manifest")
    /\ UNCHANGED <<dataset, runs, pkg, nconv, fetches, invocations, args, weights_path,
                   fresh, before, trace>>

download_data(p) ==
    /\ pc[p] = "download"
    /\ \E key \in BOOLEAN, out \in {"ok", "nomanifest", "fail", "partial"} :
        IF ~key
        THEN /\ out = "ok"
             /\ trace' = [trace EXCEPT ![p] = @ \cup {"lookup"}]
             /\ Exit(p, "ValueError")
             /\ UNCHANGED <<dataset, fetches>>
        ELSE /\ fetches' = fetches + 1
             /\ trace' = [trace EXCEPT ![p] = @ \cup {"lookup", "fetch"}]
             /\ dataset' = CASE out = "ok" -> "ok"
                             [] out = "fail" -> dataset
                             [] OTHER -> "nomanifest"
             /\ IF out \in {"ok", "nomanifest"} THEN Goto(p, "manifest")
                                                ELSE Exit(p, "FetchError")
    /\ UNCHANGED <<runs, pkg, nconv, invocations, args, weights_path, fresh, before>>

\* A train() without the data.yaml check.
CheckManifest_skip(p) ==
    /\ pc[p] = "manifest"
    /\ Goto(p, "training")
    /\ UNCHANGED <<dataset, runs, pkg, nconv, fetches, invocations, args, weights_path,
                   fresh, before, trace>>

CheckManifest(p) ==
    /\ pc[p] = "manifest"
    /\ IF dataset = "ok" THEN Goto(p, "training") ELSE Exit(p, "FileNotFoundError")
    /\ UNCHANGED <<dataset, runs, pkg, nconv, fetches, invocations, args, weights_path,
                   fresh, before, trace>>

ModelTrain(p) ==
    /\ pc[p] = "training"
    /\ trace' = [trace EXCEPT ![p] = @ \cup {"trainer"}]
    /\ \E out \in {"complete", "interrupted", "fail"} :
        /\ runs' = CASE out = "complete" -> Append(runs, {"best", "last"})
                     [] out = "interrupted" -> Append(runs, {"last"})
                     [] OTHER -> runs
        /\ IF out # "complete" THEN Exit(p, "TrainError")
           ELSE IF args[p].export THEN Goto(p, "export")
           ELSE Exit(p, "ok")
    /\ UNCHANGED <<dataset, pkg, nconv, fetches, invocations, args, weights_path,
                   fresh, before>>

(* --------------------------- export_to_coreml -------------------------- *)
ResolveWeights(p) ==
    /\ pc[p] = "export"
    /\ LET w == IF args[p].weights = "none" THEN get_best_weights
                ELSE WeightsPath(args[p].weights)
       IN  IF w = NoPath
           THEN /\ Exit(p, "NotFound")
                /\ UNCHANGED <<weights_path, before>>
           ELSE /\ weights_path' = [weights_path EXCEPT ![p] = w]
                /\ before' = [before EXCEPT ![p] = Content(Target)]
                /\ Goto(p, "convert")
    /\ UNCHANGED <<dataset, runs, pkg, nconv, fetches, invocations, args, fresh, trace>>

exported(p) == with_suffix(weights_path[p], "mlpackage")

Convert(p) ==
    /\ pc[p] = "convert"
    /\ \E out \in {"adjacent", "nothing", "raise"} :
        CASE out = "adjacent" ->
                /\ nconv' = nconv + 1
                /\ pkg' = Put(exported(p), NewPkg(nconv + 1))
                /\ fresh' = [fresh EXCEPT ![p] = nconv + 1]
                /\ Goto(p, "check_exported")
          [] out = "nothing" ->
                /\ Goto(p, "check_exported")
                /\ UNCHANGED <<nconv, pkg, fresh>>
          [] OTHER ->
                /\ Exit(p, "ConvertError")
                /\ UNCHANGED <<nconv, pkg, fresh>>
    /\ UNCHANGED <<dataset, runs, fetches, invocations, args, weights_path, before, trace>>

\* An export that raises when the predicted output is missing.
CheckExported_raise(p) ==
    /\ pc[p] = "check_exported"
    /\ IF Exists(exported(p)) THEN Goto(p, "check_target") ELSE Exit(p, "ExportArtifactMissing")
    /\ UNCHANGED <<dataset, runs, pkg, nconv, fetches, invocations, args, weights_path,
                   fresh, before, trace>>

\* An export that clears the canonical path before it looks for the new output.
CheckExported_rmfirst(p) ==
    /\ pc[p] = "check_exported"
    /\ pkg' = Remove(Target)
    /\ IF Exists(exported(p)) /\ exported(p) # Target
          THEN Goto(p, "rename") ELSE Exit(p, "warn")
    /\ UNCHANGED <<dataset, runs, nconv, fetches, invocations, args, weights_path,
                   fresh, before, trace>>

CheckExported(p) ==
    /\ pc[p] = "check_exported"
    /\ IF Exists(exported(p)) THEN Goto(p, "check_target") ELSE Exit(p, "warn")
    /\ UNCHANGED <<dataset, runs, pkg, nconv, fetches, invocations, args, weights_path,
                   fresh, before, trace>>

\* An export that never removes the old bundle.
CheckTarget_skip(p) ==
    /\ pc[p] = "check_target"
    /\ Goto(p, "rename")
    /\ UNCHANGED <<dataset, runs, pkg, nconv, fetches, invocations, args, weights_path,
                   fresh, before, trace>>

CheckTarget(p) ==
    /\ pc[p] = "check_target"
    /\ Goto(p, IF Exists(Target) THEN "rmtree" ELSE "rename")
    /\ UNCHANGED <<dataset, runs, pkg, nconv, fetches, invocations, args, weights_path,
                   fresh, before, trace>>

Rmtree(p, faulty) ==
    /\ pc[p] = "rmtree"
    /\ IF ~Exists(Target)
       THEN /\ Exit(p, "RmtreeError")
            /\ UNCHANGED pkg
       ELSE \E k \in (IF faulty THEN 0..Cardinality(pkg[Target].files) ELSE {}) \cup {-1} :
               IF k = -1
               THEN /\ pkg' = Remove(Target)
                    /\ Goto(p, "rename")
               ELSE /\ pkg' = Put(Target, Leftover(pkg[Target], k))
                    /\ Exit(p, "RmtreeError")
    /\ UNCHANGED <<dataset, runs, nconv, fetches, invocations, args, weights_path,
                   fresh, before, trace>>

Rename(p, faulty) ==
    /\ pc[p] = "rename"
    /\ LET src == exported(p)
       IN  IF ~Exists(src)
           THEN /\ Exit(p, "RenameError")
                /\ UNCHANGED pkg
           ELSE IF src # Target /\ Exists(Target) /\ pkg[Target].files # {}
           THEN /\ Exit(p, "RenameError")
                /\ UNCHANGED pkg
           ELSE \E ok \in (IF faulty THEN {FALSE} ELSE {}) \cup {TRUE} :
                   IF ok
                   THEN /\ pkg' = [x \in (DOMAIN pkg \ {src}) \cup {Target} |->
                                      IF x = Target THEN pkg[src] ELSE pkg[x]]
                        /\ Exit(p, "ok")
                   ELSE /\ Exit(p, "RenameError")
                        /\ UNCHANGED pkg
    /\ UNCHANGED <<dataset, runs, nconv, fetches, invocations, args, weights_path,
                   fresh, before, trace>>

(* --------------------------- specifications ---------------------------- *)
OldRuns == {[i \in 1..n |-> k] : n \in 0..MaxOldRuns, k \in {{"best", "last"}, {"last"}}}

InitProcs ==
    /\ pc = [p \in Procs |-> "idle"]
    /\ args = [p \in Procs |-> NoArgs]
    /\ weights_path = [p \in Procs |-> NoPath]
    /\ fresh = [p \in Procs |-> 0]
    /\ before = [p \in Procs |-> NoPkg]
    /\ trace = [p \in Procs |-> {}]
    /\ status = [p \in Procs |-> "none"]
    /\ nconv = 0
    /\ fetches = 0
    /\ invocations = 0

Init ==
    /\ dataset \in {"absent", "nomanifest", "ok"}
    /\ runs \in OldRuns
    /\ pkg \in {EmptyDisk, [x \in {Target} |-> OldPkg]}
    /\ InitProcs

\* One invocation of the script at a time, possibly followed by another.
Next ==
    \E p \in {1} :
        \/ Main(p, ArgChoices, TRUE)
        \/ TrainCheckRoot(p)
        \/ download_data(p)
        \/ CheckManifest(p)
        \/ ModelTrain(p)
        \/ ResolveWeights(p)
        \/ Convert(p)
        \/ CheckExported(p)
        \/ CheckTarget(p)
        \/ Rmtree(p, TRUE)
        \/ Rename(p, TRUE)

Spec == Init /\ [][Next]_vars

InitConc ==
    /\ dataset = "ok"
    /\ runs \in {r \in OldRuns : Len(r) = 1}
    /\ pkg \in {EmptyDisk, [x \in {Target} |-> OldPkg]}
    /\ InitProcs

\* Two export invocations, one per process, interleaved step by step; the
\* filesystem operations themselves do not fail.
NextConc ==
    \E p \in Procs :
        \/ Main(p, ExportOnly, FALSE)
        \/ ResolveWeights(p)
        \/ Convert(p)
        \/ CheckExported(p)
        \/ CheckTarget(p)
        \/ Rmtree(p, FALSE)
        \/ Rename(p, FALSE)

SpecConc == InitConc /\ [][NextConc]_vars

(* ------------------------------ properties ----------------------------- *)
Resolved(p) == args[p].weights = "none" /\ weights_path[p] # NoPath
HasKind(k) == \E i \in 1..Len(runs) : k \in runs[i]
Newest(k) == CHOOSE i \in 1..Len(runs) : k \in runs[i] /\ \A j \in 1..Len(runs) : k \in runs[j] => j <= i
Complete(b) == b # NoPkg /\ b.files = AllFiles
MissingAfterConversion(p) == pc[p] = "check_exported" /\ ~Exists(exported(p))

\* C1: whenever some run holds a best.pt, the checkpoint get_best_weights resolved
\* is a best.pt, even when a more recent run holds only last.pt.
C1_BestOverLast ==
    \A p \in Procs : (Resolved(p) /\ HasKind("best")) => weights_path[p].stem = "best"

C1_Witness ==
    \E p \in Procs :
        /\ Resolved(p)
        /\ weights_path[p].stem = "best"
        /\ \E i \in 1..Len(runs) : i > weights_path[p].run /\ runs[i] = {"last"}

\* C2: the checkpoint get_best_weights resolved belongs to the most recently
\* created run among those holding a checkpoint of the selected tier.
C2_MostRecentInTier ==
    \A p \in Procs : Resolved(p) => weights_path[p].run = Newest(weights_path[p].stem)

C4_CanonicalUntouched ==
    \A p \in Procs : (pc[p] = "exit" /\ status[p] = "warn") => Content(Target) = before[p]

C4_Witness ==
    \E p \in Procs : pc[p] = "exit" /\ status[p] = "warn" /\ before[p] = OldPkg

\* C5: after an export that completed successfully the canonical path holds one
\* complete bundle, and it is the one this call's conversion wrote.
C5_FreshAfterSuccess ==
    \A p \in Procs : (pc[p] = "exit" /\ status[p] = "ok" /\ args[p].export)
        => (fresh[p] >= 1 /\ Content(Target) = NewPkg(fresh[p]))

\* C6: an export that failed while removing the old bundle or renaming the new one
\* leaves the canonical path either empty or holding one complete bundle.
C6_NoPartialAfterFailure ==
    \A p \in Procs : (pc[p] = "exit" /\ status[p] \in {"RmtreeError", "RenameError"})
        => (~Exists(Target) \/ Complete(pkg[Target]))

\* C7: over any sequence of train invocations the remote fetch is performed at
\* most once.
C7_FetchAtMostOnce == fetches <= 1

\* C7 (amended): the credential lookup and the remote fetch happen only in a step
\* taken while the dataset root is absent; once the root exists no train
\* invocation looks up the credential or fetches.
C7_FetchOnlyWhenRootAbsent ==
    [][(dataset # "absent")
        => (fetches' = fetches
            /\ \A p \in Procs : trace'[p] \cap {"lookup", "fetch"} \subseteq trace[p])]_vars

C7_Witness ==
    \E p \in Procs : fetches >= 1 /\ pc[p] = "manifest" /\ trace[p] = {}

\* C8: the training algorithm runs only while data.yaml exists; a missing
\* credential, a failed fetch or a missing manifest ends the stage before the
\* training algorithm is invoked, and a missing credential before any remote call.
C8_TrainOnlyWithManifest ==
    \A p \in Procs :
        /\ (pc[p] = "training" \/ "trainer" \in trace[p]) => dataset = "ok"
        /\ status[p] \in {"ValueError", "FetchError", "FileNotFoundError"}
              => (pc[p] = "exit" /\ "trainer" \notin trace[p])
        /\ status[p] = "ValueError" => "fetch" \notin trace[p]

C8_Witness ==
    \E p \in Procs : status[p] = "FileNotFoundError" /\ "fetch" \in trace[p]

\* C9: an export whose files are not the canonical path itself fails at the
\* removal or the rename only when another invocation has got past its own
\* conversion (and so may have written, removed or placed a bundle); with two
\* invocations interleaved such a failure is reachable.
C9_FailureNeedsOverlap ==
    \A p \in Procs :
        (status[p] \in {"RmtreeError", "RenameError"} /\ args[p].weights # "alias")
            => \E q \in Procs \ {p} : pc[q] \notin {"idle", "export", "convert"}

C9_Witness ==
    \E p \in Procs :
        /\ status[p] \in {"RmtreeError", "RenameError"}
        /\ fresh[p] >= 1
        /\ args[p].weights # "alias"

\* C10: with train and export and no explicit weights, the export converts a
\* checkpoint of the run the training has just created.
C10_ExportsNewRun ==
    \A p \in Procs : (args[p].train /\ args[p].export /\ Resolved(p))
        => weights_path[p].run = Len(runs)

====
